---- MODULE Spec2Model ----
(***************************************************************************)
(* Model of time_auction_approximation.py: the three approximation         *)
(* algorithms of "Auctioning time" (equally_sized_pieces, discrete_setting,*)
(* continuous_setting) and their helpers.                                  *)
(*                                                                         *)
(* Numbers.  Python floats are modelled as binary floating-point numbers   *)
(* with a MantissaBits-bit significand, rounded to nearest, ties to even,  *)
(* exactly as IEEE-754 binary64 does with 53 bits.  A float is held as an  *)
(* integer count of units of 2^-UnitBits, so 1.0 is the integer One.       *)
(* Positions handed to the valuation oracle are held in ticks of 1/Scale   *)
(* of a cake cell (Scale = 10^4, the resolution of "%.4f").                *)
(***************************************************************************)
EXTENDS Integers, Sequences, FiniteSets, TLC

\* ------------------------------------------------------------------ bounds
MantissaBits == 3   \* significand width of the modelled floats (53 in binary64)
UnitBits == 4       \* 1.0 = 2^UnitBits units
MaxLoop == 6        \* cap on the iterations of create_partition's while loop
MaxM == 5           \* longest pieces sequence given to discrete_setting / change_partition
MaxT == 3           \* largest t given to change_partition when called on its own
MaxAgents == 2      \* longest agent list given to equally_sized_pieces / discrete_setting
MaxProbeAgents == 4 \* longest agent list given to continuous_setting
CakeLen == 2        \* cake_length() of every agent (cells of its valuation)
Scale == 10000      \* ticks per cell: float("%.4f" % end) keeps 4 decimals

RECURSIVE Pow2(_)
Pow2(k) == IF k <= 0 THEN 1 ELSE 2 * Pow2(k - 1)

One == Pow2(UnitBits)

\* ------------------------------------------------------- float arithmetic
\* The spacing of the floats around num/den (den > 0, num >= 0).
RECURSIVE Quantum(_, _, _)
Quantum(num, den, q) ==
    IF num < Pow2(MantissaBits) * q * den THEN q ELSE Quantum(num, den, 2 * q)

\* num/den >= 0 rounded to the nearest float, ties to the even significand.
RoundMag(num, den) ==
    LET q == Quantum(num, den, 1)
        lo == (num \div (den * q)) * q
        twiceRest == 2 * (num - lo * den)
    IN  IF twiceRest < q * den THEN lo
        ELSE IF twiceRest > q * den THEN lo + q
        ELSE IF (lo \div q) % 2 = 0 THEN lo ELSE lo + q

FRound(num, den) == IF num < 0 THEN 0 - RoundMag(0 - num, den) ELSE RoundMag(num, den)

FAdd(a, b) == FRound(a + b, 1)           \* a + b
FSub(a, b) == FRound(a - b, 1)           \* a - b
FMulInt(n, a) == FRound(n * a, 1)        \* n * a, n an int
FDiv(a, b) == FRound(a * One, b)         \* a / b, b > 0
\* int(x): truncation toward zero
PyInt(a) == IF a < 0 THEN 0 - ((0 - a) \div One) ELSE a \div One

IsFloat(x) == FRound(x, 1) = x
\* the floats of [0, 1]
UnitFloats == {x \in 0..One : IsFloat(x)}

\* range(start, stop, step) for step > 0, as a sequence
PyRange(start, stop, step) ==
    IF stop <= start THEN << >>
    ELSE [k \in 1..(((stop - start - 1) \div step) + 1) |-> start + (k - 1) * step]

\* ------------------------------------------------------- change_partition
change_partition_no_plus_one(partition, t) ==
    LET starts == PyRange(0, Len(partition) - Pow2(t), Pow2(t))
    IN  [k \in 1..Len(starts) |->
            << partition[starts[k] + 1][1], partition[starts[k] + Pow2(t)][2] >>]

\* for start in range(0, len(partition) - 2 ** t + 1, 2 ** t):
\*     end = start + 2 ** t - 1
\*     ret.append((partition[start][0], partition[end][1]))
\* (Python indexes from 0, sequences here from 1.)
change_partition(partition, t) ==
    LET starts == PyRange(0, Len(partition) - Pow2(t) + 1, Pow2(t))
    IN  [k \in 1..Len(starts) |->
            << partition[starts[k] + 1][1], partition[starts[k] + Pow2(t) - 1 + 1][2] >>]

\* Partitions given as input: m contiguous pieces, boundary k at bounds[k].
PartitionOf(bounds) == [k \in 1..(Len(bounds) - 1) |-> << bounds[k], bounds[k + 1] >>]
HalfCells(m) == [k \in 1..(m + 1) |-> (k - 1) * (Scale \div 2)]
Uneven(m) == [k \in 1..(m + 1) |-> (k - 1) * k * (Scale \div 20)]
InputPartitions ==
    {PartitionOf(HalfCells(m)) : m \in 0..MaxM} \cup {PartitionOf(Uneven(m)) : m \in 0..MaxM}

\* ----------------------------------------------------- valuation oracle
\* An agent is its valuation: the value of each of its CakeLen cells.  The agents of a
\* call are numbered by their position in the list the call was given; a list of agents
\* inside the call is a sequence of these numbers.
Worthless == [c \in 1..CakeLen |-> 0]
FrontHeavy == [c \in 1..CakeLen |-> IF c = 1 THEN 3 ELSE 1]
BackHeavy == [c \in 1..CakeLen |-> IF c = CakeLen THEN 2 ELSE 1]
Valuations == {Worthless, FrontHeavy, BackHeavy}

AgentLists == UNION {[1..n -> Valuations] : n \in 0..MaxAgents}
\* the list `agents` a call is given: agent k has valuation val[k]
AgentIds(val) == [k \in DOMAIN val |-> k]

RECURSIVE SumTo(_, _)
SumTo(f, n) == IF n = 0 THEN 0 ELSE f[n] + SumTo(f, n - 1)

Max2(a, b) == IF a >= b THEN a ELSE b
Min2(a, b) == IF a <= b THEN a ELSE b

\* agent.cake_length()
cake_length(v) == CakeLen

\* agent.eval(start, end): the value of [start, end), additive, 0 outside the cake.
\* Positions in ticks; the value is in 1/Scale of a value unit.
eval(v, start, end) ==
    SumTo([c \in 1..CakeLen |->
              v[c] * Max2(0, Min2(end, c * Scale) - Max2(start, (c - 1) * Scale))], CakeLen)

\* agent.cake_value() in the same units
cake_value(v) == eval(v, 0, CakeLen * Scale)

SeqRange(s) == {s[k] : k \in DOMAIN s}

\* ----------------------------------------------------------- matching graph
AgentNode(a) == [kind |-> "agent", agent |-> a, piece |-> << 0, 0 >>]
PieceNode(p) == [kind |-> "piece", agent |-> 0, piece |-> p]

\* evaluations[(agent, piece)] = agent.eval(start=piece[0], end=piece[1]) for every
\* piece of the partition and every agent
evaluate(val, agentList, partition) ==
    [key \in SeqRange(agentList) \X SeqRange(partition) |->
        eval(val[key[1]], key[2][1], key[2][2])]

create_matching_graph_own_edges(left, right, weights) ==
    [ left |-> SeqRange(left),
      right |-> SeqRange(right),
      weight |-> [key \in {k \in DOMAIN weights : k[2] \in SeqRange(right)} |-> weights[key]] ]

\* g.add_nodes_from(left); g.add_nodes_from(right);
\* for key, value in weights.items(): g.add_edge(key[0], key[1], weight=value)
\* (add_edge adds the endpoints it does not find.)
create_matching_graph(left, right, weights) ==
    [ left |-> SeqRange(left) \cup {k[1] : k \in DOMAIN weights},
      right |-> SeqRange(right) \cup {k[2] : k \in DOMAIN weights},
      weight |-> weights ]

NoGraph == create_matching_graph(<< >>, << >>, << >>)

Injective(f) == \A x, y \in DOMAIN f : f[x] = f[y] => x = y

\* The matchings of g: sets of edges no two of which share an endpoint.
Matchings(g) ==
    UNION { { {<< a, f[a] >> : a \in A} :
                f \in {h \in [A -> g.right] :
                          Injective(h) /\ \A a \in A : << a, h[a] >> \in DOMAIN g.weight} } :
            A \in SUBSET g.left }

RECURSIVE SumOver(_, _)
SumOver(w, S) ==
    IF S = {} THEN 0
    ELSE LET e == CHOOSE x \in S : TRUE IN w[e] + SumOver(w, S \ {e})

SetMax(S) == CHOOSE x \in S : \A y \in S : y <= x

MaxWeight(g) == SetMax({SumOver(g.weight, M) : M \in Matchings(g)})

\* networkx max_weight_matching(g): some matching of maximum total weight.
MaxWeightMatchings(g) ==
    LET all == Matchings(g)
        best == SetMax({SumOver(g.weight, M) : M \in all})
    IN  {M \in all : SumOver(g.weight, M) = best}

\* The solver reports each edge with its endpoints in either order.
Orders == {"agent_first", "piece_first", "mixed"}
Raw(M, order) ==
    { IF order = "piece_first" \/ (order = "mixed" /\ e[1] % 2 = 0)
      THEN << PieceNode(e[2]), AgentNode(e[1]) >>
      ELSE << AgentNode(e[1]), PieceNode(e[2]) >> : e \in M }

\* if not isinstance(edge[0], Agent): ret.add((edge[1], edge[0]))
\* else: ret.add((edge[0], edge[1]))
fix_edges(edges_set) ==
    { IF e[1].kind # "agent" THEN << e[2], e[1] >> ELSE << e[1], e[2] >> : e \in edges_set }

\* ret += g.get_edge_data(edge[0], edge[1])['weight'] for every edge
calculate_weight(g, edges_set) ==
    SumOver([e \in edges_set |-> g.weight[<< e[1].agent, e[2].piece >>]], edges_set)

\* ---------------------------------------------------------------- Allocation
\* Allocation(agents): the chosen agents in order, each with no piece yet.
Allocation(chosen) == [agents |-> chosen, pieces |-> [k \in DOMAIN chosen |-> << >>]]
\* allocation.set_piece(agent_index, piece)
set_piece(alloc, agent_index, piece) == [alloc EXCEPT !.pieces[agent_index] = piece]
\* list.index(x): the first position holding x
IndexOf(seq, x) == CHOOSE k \in DOMAIN seq : seq[k] = x /\ \A j \in 1..(k - 1) : seq[j] # x

RECURSIVE SetPieces(_, _, _, _)
SetPieces(alloc, chosen, order, k) ==
    IF k > Len(order) THEN alloc
    ELSE SetPieces(set_piece(alloc, IndexOf(chosen, order[k][1]), << order[k][2].piece >>),
                   chosen, order, k + 1)

RECURSIVE SetPiecesAtFirst(_, _, _, _)
SetPiecesAtFirst(alloc, chosen, order, k) ==
    IF k > Len(order) THEN alloc
    ELSE SetPiecesAtFirst(set_piece(alloc, 1, << order[k][2].piece >>), chosen, order, k + 1)

build_allocation_index_0(order) ==
    LET chosen == [k \in DOMAIN order |-> order[k][1]]
    IN  SetPiecesAtFirst(Allocation(chosen), chosen, order, 1)

\* chosen_agents = [edge[0] for edge in edges_set]
\* allocation = Allocation(chosen_agents)
\* for edge in edges_set:
\*     allocation.set_piece(agent_index=chosen_agents.index(edge[0]), piece=[edge[1]])
\* order: the order in which the set edges_set is iterated.
build_allocation(order) ==
    LET chosen == [k \in DOMAIN order |-> order[k][1]]
    IN  SetPieces(Allocation(chosen), chosen, order, 1)

IterationOrders(S) == {f \in [1..Cardinality(S) -> S] : Injective(f)}

NoAllocation == Allocation(<< >>)

\* ------------------------------------------------------------------ state
VARIABLES
    pc,         \* control point of the running call
    op,         \* the entry point that was called
    outcome,    \* "running", "returned", or the exception raised
    work,       \* the kinds of computation the call has started so far
    agents,     \* the agent list the call was given
    cp,         \* locals of create_partition: size, start0, start, end, res
    chp,        \* arguments and result of change_partition: partition, t, ret
    esp,        \* locals of equally_sized_pieces
    ds,         \* locals of discrete_setting
    cs,         \* locals of continuous_setting
    allocation  \* the Allocation the call returned

vars == << pc, op, outcome, work, agents, cp, chp, esp, ds, cs, allocation >>

NoCp == [size |-> 0, start0 |-> 0, start |-> 0, end |-> 0, res |-> << >>]
NoChp == [partition |-> << >>, t |-> 0, ret |-> << >>]
NoEsp ==
    [ piece_size |-> 0, delta |-> 0, building |-> "none",
      partition_0_l |-> << >>, partition_delta_l |-> << >>,
      normalize_partitions_0_l |-> << >>, normalize_partitions_delta_l |-> << >>,
      evaluations |-> << >>, g_0_l |-> NoGraph, g_delta_l |-> NoGraph,
      edges_set_0_l |-> {}, weight_0 |-> 0, weight_delta |-> 0, edges_set |-> {} ]

NoDs ==
    [ agents |-> << >>, pieces |-> << >>, r |-> 0, t |-> 0, max_weight |-> 0,
      max_match |-> {}, max_match_t |-> 0, max_match_is_None |-> TRUE, weights |-> << >>, res |-> NoAllocation ]
NoCs == [s |-> << >>, partitions |-> {}, a |-> 0, i |-> 0, start |-> 0, pieces |-> << >>]

Init ==
    /\ pc = "idle"
    /\ op = "none"
    /\ outcome = "running"
    /\ work = {}
    /\ agents = << >>
    /\ cp = NoCp
    /\ chp = NoChp
    /\ esp = NoEsp
    /\ ds = NoDs
    /\ cs = NoCs
    /\ allocation = NoAllocation

\* ------------------------------------------------------- create_partition
\* res = []; end = start + size
create_partition_enter(size, start) ==
    [size |-> size, start0 |-> start, start |-> start, end |-> FAdd(start, size), res |-> << >>]

\* one iteration of: while end <= 1: res.append((start, end)); start = end; end = start + size
create_partition_body(c) ==
    [c EXCEPT !.res = Append(c.res, << c.start, c.end >>),
              !.start = c.end,
              !.end = FAdd(c.end, c.size)]

\* the loop test: end <= 1
create_partition_test(c) == c.end <= One

CallCreatePartition ==
    /\ pc = "idle"
    /\ \E size \in UnitFloats \ {0}, start \in UnitFloats :
           cp' = create_partition_enter(size, start)
    /\ pc' = "cp_loop"
    /\ op' = "create_partition"
    /\ work' = {"partition"}
    /\ UNCHANGED << outcome, agents, chp, esp, ds, cs, allocation >>

\* The while loop, in whichever call create_partition is running.
CreatePartitionLoop ==
    /\ pc = "cp_loop"
    /\ create_partition_test(cp)
    /\ Len(cp.res) < MaxLoop
    /\ cp' = create_partition_body(cp)
    /\ UNCHANGED << pc, op, outcome, work, agents, chp, esp, ds, cs, allocation >>

CreatePartitionReturn ==
    /\ pc = "cp_loop"
    /\ op = "create_partition"
    /\ ~create_partition_test(cp)
    /\ pc' = "done"
    /\ outcome' = "returned"
    /\ UNCHANGED << op, work, agents, cp, chp, esp, ds, cs, allocation >>

CallChangePartition ==
    /\ pc = "idle"
    /\ \E partition \in InputPartitions, t \in 0..MaxT :
           chp' = [partition |-> partition, t |-> t, ret |-> change_partition(partition, t)]
    /\ pc' = "done"
    /\ op' = "change_partition"
    /\ outcome' = "returned"
    /\ work' = {"partition"}
    /\ UNCHANGED << agents, cp, esp, ds, cs, allocation >>

\* --------------------------------------------------- equally_sized_pieces
\* The piece sizes tried: every float of [0, 1] and 2.0.
PieceSizes == UnitFloats \cup {2 * One}

\* delta = 1 - int(1 / piece_size) * piece_size
delta_of(piece_size) == FSub(One, FMulInt(PyInt(FDiv(One, piece_size)), piece_size))

\* [(int(p[0] * length), int(p[1] * length)) for p in partition], in ticks
normalize(partition, length) ==
    [k \in DOMAIN partition |->
        << Scale * PyInt(FMulInt(length, partition[k][1])),
           Scale * PyInt(FMulInt(length, partition[k][2])) >>]

\* if num_of_agents == 0: raise ValueError; if not 0 < piece_size <= 1: raise ValueError
CallEquallySizedPiecesInvalid ==
    /\ pc = "idle"
    /\ \E ags \in AgentLists, piece_size \in PieceSizes :
        /\ Len(ags) = 0 \/ ~(0 < piece_size /\ piece_size <= One)
        /\ agents' = ags
        /\ esp' = [NoEsp EXCEPT !.piece_size = piece_size]
    /\ op' = "equally_sized_pieces"
    /\ pc' = "done"
    /\ outcome' = "ValueError"
    /\ UNCHANGED << work, cp, chp, ds, cs, allocation >>

\* lines 54-65: the checks pass, delta is set and create_partition(piece_size) starts
CallEquallySizedPieces ==
    /\ pc = "idle"
    /\ \E ags \in AgentLists, piece_size \in PieceSizes :
        /\ Len(ags) # 0
        /\ 0 < piece_size /\ piece_size <= One
        /\ agents' = ags
        /\ esp' = [NoEsp EXCEPT !.piece_size = piece_size,
                                !.delta = delta_of(piece_size),
                                !.building = "partition_0_l"]
        /\ cp' = create_partition_enter(piece_size, 0)
    /\ op' = "equally_sized_pieces"
    /\ pc' = "cp_loop"
    /\ work' = {"partition"}
    /\ UNCHANGED << outcome, chp, ds, cs, allocation >>

\* line 65 returns; line 67: create_partition(piece_size, start=delta) starts
EspPartition0Built ==
    /\ pc = "cp_loop"
    /\ op = "equally_sized_pieces"
    /\ esp.building = "partition_0_l"
    /\ ~create_partition_test(cp)
    /\ esp' = [esp EXCEPT !.partition_0_l = cp.res, !.building = "partition_delta_l"]
    /\ cp' = create_partition_enter(esp.piece_size, esp.delta)
    /\ UNCHANGED << pc, op, outcome, work, agents, chp, ds, cs, allocation >>

\* lines 69-89: all_partitions, the normalised partitions, the evaluations of every
\* piece of both partitions, and the two graphs, both built from all the evaluations
esp_graphs(e, val, partition_delta_l) ==
    LET agentList == AgentIds(val)
        all_partitions == e.partition_0_l \o partition_delta_l
        length == SetMax({cake_length(val[a]) : a \in DOMAIN val})
        normalize_partitions == normalize(all_partitions, length)
        n0 == normalize(e.partition_0_l, length)
        nd == normalize(partition_delta_l, length)
        evaluations == evaluate(val, agentList, normalize_partitions)
    IN  [e EXCEPT !.partition_delta_l = partition_delta_l,
                  !.building = "none",
                  !.normalize_partitions_0_l = n0,
                  !.normalize_partitions_delta_l = nd,
                  !.evaluations = evaluations,
                  !.g_0_l = create_matching_graph(agentList, n0, evaluations),
                  !.g_delta_l = create_matching_graph(agentList, nd, evaluations)]

\* line 67 returns; lines 69-89
EspGraphsBuilt ==
    /\ pc = "cp_loop"
    /\ op = "equally_sized_pieces"
    /\ esp.building = "partition_delta_l"
    /\ ~create_partition_test(cp)
    /\ esp' = esp_graphs(esp, agents, cp.res)
    /\ pc' = "esp_match_0"
    /\ work' = work \cup {"eval"}
    /\ UNCHANGED << op, outcome, agents, cp, chp, ds, cs, allocation >>

\* line 93: edges_set_0_l = fix_edges(max_weight_matching(g_0_l))
EspMatch0 ==
    /\ pc = "esp_match_0"
    /\ \E M \in MaxWeightMatchings(esp.g_0_l), order \in Orders :
           esp' = [esp EXCEPT !.edges_set_0_l = fix_edges(Raw(M, order))]
    /\ pc' = "esp_match_delta"
    /\ work' = work \cup {"solve"}
    /\ UNCHANGED << op, outcome, agents, cp, chp, ds, cs, allocation >>

\* lines 98-101: the heavier matching, edges_set_0_l on a tie
esp_choose(e, edges_set_delta_l) ==
    [e EXCEPT !.weight_0 = calculate_weight(e.g_0_l, e.edges_set_0_l),
              !.weight_delta = calculate_weight(e.g_delta_l, edges_set_delta_l),
              !.edges_set =
                  IF calculate_weight(e.g_delta_l, edges_set_delta_l)
                       > calculate_weight(e.g_0_l, e.edges_set_0_l)
                  THEN edges_set_delta_l ELSE e.edges_set_0_l]

\* line 94: edges_set_delta_l = fix_edges(max_weight_matching(g_delta_l)); lines 98-101
EspMatchDelta ==
    /\ pc = "esp_match_delta"
    /\ \E M \in MaxWeightMatchings(esp.g_delta_l), order \in Orders :
           esp' = esp_choose(esp, fix_edges(Raw(M, order)))
    /\ pc' = "esp_allocate"
    /\ UNCHANGED << op, outcome, work, agents, cp, chp, ds, cs, allocation >>

\* lines 104-111
EspReturn ==
    /\ pc = "esp_allocate"
    /\ \E order \in IterationOrders(esp.edges_set) :
           allocation' = build_allocation(order)
    /\ pc' = "done"
    /\ outcome' = "returned"
    /\ UNCHANGED << op, work, agents, cp, chp, esp, ds, cs >>

\* ------------------------------------------------------- discrete_setting
RECURSIVE FloorLog2(_)
FloorLog2(m) == IF m < 2 THEN 0 ELSE 1 + FloorLog2(m \div 2)

\* m = len(pieces); r = int(log(m, 2)); max_weight = 0; max_match = None
discrete_setting_enter(agentList, pieces) ==
    [NoDs EXCEPT !.agents = agentList, !.pieces = pieces, !.r = FloorLog2(Len(pieces))]

\* The edges of max_match are not read before line 177, and the solver's answers for the
\* other levels are never read at all.  max_match is therefore held as the level whose
\* solver call produced it (max_match_t), and its edges are drawn where they are read
\* (DsReturn), from the matchings that solver call could return.
ds_keep_not_lighter(d, weight) ==
    [d EXCEPT !.t = d.t + 1,
              !.weights = Append(d.weights, weight),
              !.max_weight = IF weight >= d.max_weight THEN weight ELSE d.max_weight,
              !.max_match_t = IF weight >= d.max_weight THEN d.t ELSE d.max_match_t,
              !.max_match_is_None = IF weight >= d.max_weight THEN FALSE ELSE d.max_match_is_None]

\* if weight > max_weight: max_weight = weight; max_match = edges_set
\* (and the for loop moves on to the next t)
ds_keep_heavier(d, weight) ==
    [d EXCEPT !.t = d.t + 1,
              !.weights = Append(d.weights, weight),
              !.max_weight = IF weight > d.max_weight THEN weight ELSE d.max_weight,
              !.max_match_t = IF weight > d.max_weight THEN d.t ELSE d.max_match_t,
              !.max_match_is_None = IF weight > d.max_weight THEN FALSE ELSE d.max_match_is_None]

\* lines 148-162: the graph of iteration t
ds_graph(d, val, t) ==
    LET partition_i == change_partition(d.pieces, t)
        evaluations == evaluate(val, d.agents, partition_i)
    IN  create_matching_graph(d.agents, partition_i, evaluations)

\* lines 165-169: the weight of the matching the solver returns for iteration t; every
\* maximum-weight matching has this weight
ds_weight(d, val) ==
    LET g_i == ds_graph(d, val, d.t)
        edges_set == fix_edges(Raw(CHOOSE M \in MaxWeightMatchings(g_i) : TRUE, "mixed"))
    IN  calculate_weight(g_i, edges_set)

\* discrete_setting(agents, pieces) with len(pieces) = 0: log(0, 2) raises ValueError
CallDiscreteSettingNoPieces ==
    /\ pc = "idle"
    /\ \E ags \in AgentLists, pieces \in InputPartitions :
        /\ Len(pieces) = 0
        /\ agents' = ags
        /\ ds' = [NoDs EXCEPT !.agents = AgentIds(ags), !.pieces = pieces]
    /\ op' = "discrete_setting"
    /\ pc' = "done"
    /\ outcome' = "ValueError"
    /\ UNCHANGED << work, cp, chp, esp, cs, allocation >>

\* lines 135-140
CallDiscreteSetting ==
    /\ pc = "idle"
    /\ \E ags \in AgentLists, pieces \in InputPartitions :
        /\ Len(pieces) # 0
        /\ agents' = ags
        /\ ds' = discrete_setting_enter(AgentIds(ags), pieces)
    /\ op' = "discrete_setting"
    /\ pc' = "ds_loop"
    /\ UNCHANGED << outcome, work, cp, chp, esp, cs, allocation >>

\* one iteration of the loop over t, lines 145-174
DsIteration ==
    /\ pc = "ds_loop"
    /\ ds.t <= ds.r
    /\ ds' = ds_keep_heavier(ds, ds_weight(ds, agents))
    /\ work' = work \cup {"partition", "solve"} \cup (IF ds.agents = << >> THEN {} ELSE {"eval"})
    /\ UNCHANGED << pc, op, outcome, agents, cp, chp, esp, cs, allocation >>

\* lines 177-184 with max_match still None: iterating None raises TypeError
DsRaise ==
    /\ pc = "ds_loop"
    /\ ds.t > ds.r
    /\ ds.max_match_is_None
    /\ pc' = "done"
    /\ outcome' = "TypeError"
    /\ UNCHANGED << op, work, agents, cp, chp, esp, ds, cs, allocation >>

\* lines 177-184, with the edges of max_match as the solver call of level max_match_t
\* returned them
DsReturn ==
    /\ pc = "ds_loop"
    /\ ds.t > ds.r
    /\ ~ds.max_match_is_None
    /\ \E M \in MaxWeightMatchings(ds_graph(ds, agents, ds.max_match_t)), order \in Orders :
        LET max_match == fix_edges(Raw(M, order))
        IN  \E it \in IterationOrders(max_match) :
                /\ ds' = [ds EXCEPT !.max_match = max_match, !.res = build_allocation(it)]
                /\ IF op = "discrete_setting"
                   THEN /\ allocation' = build_allocation(it)
                        /\ pc' = "done"
                        /\ outcome' = "returned"
                   ELSE /\ pc' = "cs_return"
                        /\ UNCHANGED << allocation, outcome >>
    /\ UNCHANGED << op, work, agents, cp, chp, esp, cs >>

\* ----------------------------------------------------- continuous_setting
\* The agent lists tried in continuous_setting: the first z agents worthless, the next
\* ones worth more at the front, the rest worth more at the back.  The random choice
\* ranges over every position, so the order of the list loses no case.
ProbeAgentLists ==
    { [k \in 1..n |-> IF k <= z THEN Worthless ELSE IF k <= y THEN FrontHeavy ELSE BackHeavy] :
        n \in 0..MaxProbeAgents, z \in 0..MaxProbeAgents, y \in 0..MaxProbeAgents }

\* random.choices(agents, k=n//2): n//2 draws with replacement
Choices(n) == [1..(n \div 2) -> 1..n]

\* agent.mark(start, target): the smallest position p >= start with [start, p) worth
\* target, none when there is none.  target = need / twoN value ticks, need >= 0;
\* the position is the fraction num / den of a tick.
RECURSIVE MarkFrom(_, _, _, _, _)
MarkFrom(v, pos, need, c, twoN) ==
    IF need = 0 THEN [none |-> FALSE, num |-> pos, den |-> 1]
    ELSE IF c > CakeLen THEN [none |-> TRUE, num |-> 0, den |-> 1]
    ELSE LET avail == v[c] * twoN * (c * Scale - pos)
         IN  IF need <= avail
             THEN [none |-> FALSE, num |-> pos * v[c] * twoN + need, den |-> v[c] * twoN]
             ELSE MarkFrom(v, c * Scale, need - avail, c + 1, twoN)

mark(v, start, need, twoN) ==
    MarkFrom(v, start, need, Min2(start \div Scale, CakeLen) + 1, twoN)

\* float("%.4f" % end): the nearest multiple of 10^-4; which neighbour an exact half
\* goes to depends on the binary expansion of the float, so either
Round4(num, den) ==
    LET q == num \div den
        twiceRest == 2 * (num % den)
    IN  IF twiceRest < den THEN {q}
        ELSE IF twiceRest > den THEN {q + 1}
        ELSE {q, q + 1}

RECURSIVE SortSet(_)
SortSet(S) ==
    IF S = {} THEN << >>
    ELSE LET least == CHOOSE x \in S : \A y \in S : x <= y
         IN  << least >> \o SortSet(S \ {least})

Reverse(q) == [k \in DOMAIN q |-> q[Len(q) + 1 - k]]

cs_pieces_unsorted(partitions) == PartitionOf(Reverse(SortSet(partitions)))

\* lines 230-242: partitions = sorted(list(partitions)) and the pieces between
\* consecutive boundaries
cs_pieces(partitions) == PartitionOf(SortSet(partitions))

cs_remaining_all(val, s) == SortSet(DOMAIN val)

\* line 246: agents = list(set(agents) - set(s))
cs_remaining(val, s) == SortSet((DOMAIN val) \ SeqRange(s))

cs_next_agent(c) == [c EXCEPT !.a = c.a + 1, !.i = 0, !.start = 0]

\* partitions.add(end); start = end; and the next i of range(0, 2*n), or the next agent
cs_marked(c, end, n) ==
    IF c.i + 1 < 2 * n
    THEN [c EXCEPT !.partitions = c.partitions \cup {end}, !.start = end, !.i = c.i + 1]
    ELSE cs_next_agent([c EXCEPT !.partitions = c.partitions \cup {end}])

\* lines 206-213
CallContinuousSetting ==
    /\ pc = "idle"
    /\ \E ags \in ProbeAgentLists :
        \E s \in Choices(Len(ags)) :
            /\ agents' = ags
            /\ cs' = [NoCs EXCEPT !.s = s, !.partitions = {0}, !.a = 1]
    /\ op' = "continuous_setting"
    /\ pc' = "cs_probe"
    /\ UNCHANGED << outcome, work, cp, chp, esp, ds, allocation >>

\* one iteration of the inner loop, lines 220-228
CsMark ==
    /\ pc = "cs_probe"
    /\ cs.a <= Len(cs.s)
    /\ LET n == Len(agents)
           v == agents[cs.s[cs.a]]
           m == mark(v, cs.start, cake_value(v), 2 * n)
       IN  IF m.none
           THEN cs' = cs_next_agent(cs)
           ELSE \E end \in Round4(m.num, m.den) : cs' = cs_marked(cs, end, n)
    /\ work' = work \cup {"mark"}
    /\ UNCHANGED << pc, op, outcome, agents, cp, chp, esp, ds, allocation >>

\* lines 230-248: the partition J, the remaining agents, and the call of discrete_setting
CsInvokeDiscreteSetting ==
    /\ pc = "cs_probe"
    /\ cs.a > Len(cs.s)
    /\ cs' = [cs EXCEPT !.pieces = cs_pieces(cs.partitions)]
    /\ work' = work \cup {"partition"}
    /\ IF Len(cs_pieces(cs.partitions)) = 0
       THEN /\ pc' = "done"
            /\ outcome' = "ValueError"
            /\ ds' = [NoDs EXCEPT !.agents = cs_remaining(agents, cs.s)]
       ELSE /\ pc' = "ds_loop"
            /\ ds' = discrete_setting_enter(cs_remaining(agents, cs.s), cs_pieces(cs.partitions))
            /\ UNCHANGED outcome
    /\ UNCHANGED << op, agents, cp, chp, esp, allocation >>

\* lines 248-250: res = discrete_setting(agents, pieces); return res
CsReturn ==
    /\ pc = "cs_return"
    /\ allocation' = ds.res
    /\ pc' = "done"
    /\ outcome' = "returned"
    /\ UNCHANGED << op, work, agents, cp, chp, esp, ds, cs >>

\* ------------------------------------------------------------ specifications
NextPartition ==
    \/ CallCreatePartition
    \/ CreatePartitionLoop
    \/ CreatePartitionReturn
    \/ CallChangePartition

NextEsp ==
    \/ CallEquallySizedPiecesInvalid
    \/ CallEquallySizedPieces
    \/ CreatePartitionLoop
    \/ EspPartition0Built
    \/ EspGraphsBuilt
    \/ EspMatch0
    \/ EspMatchDelta
    \/ EspReturn

NextDs ==
    \/ CallDiscreteSettingNoPieces
    \/ CallDiscreteSetting
    \/ DsIteration
    \/ DsRaise
    \/ DsReturn

NextCs ==
    \/ CallContinuousSetting
    \/ CsMark
    \/ CsInvokeDiscreteSetting
    \/ DsIteration
    \/ DsRaise
    \/ DsReturn
    \/ CsReturn

Next == NextPartition \/ NextEsp \/ NextDs \/ NextCs

\* every function of the module
Spec == Init /\ [][Next]_vars
\* create_partition and change_partition called on their own
SpecPartition == Init /\ [][NextPartition]_vars
\* equally_sized_pieces
SpecEsp == Init /\ [][NextEsp]_vars
\* discrete_setting
SpecDs == Init /\ [][NextDs]_vars
\* equally_sized_pieces and discrete_setting
SpecMatch == Init /\ [][NextEsp \/ NextDs]_vars
\* continuous_setting
SpecCs == Init /\ [][NextCs]_vars

\* ------------------------------------------------------------------ claims
Returned(f) == op = f /\ pc = "done" /\ outcome = "returned"

\* the matching the returned Allocation was built from
ReturnedEdges == IF op = "equally_sized_pieces" THEN esp.edges_set ELSE ds.max_match

\* the value agent a has for piece p
ValueOf(a, p) == eval(agents[a], p[1], p[2])

\* the total value of an Allocation
Welfare(alloc) ==
    SumTo([k \in DOMAIN alloc.agents |->
              IF Len(alloc.pieces[k]) = 0 THEN 0
              ELSE ValueOf(alloc.agents[k].agent, alloc.pieces[k][1])], Len(alloc.agents))

\* the graph of one partition as section 4.3 describes it: the agents, the pieces of
\* that partition, an edge for every evaluation of one of them
TilingGraph(partition) ==
    create_matching_graph_own_edges(AgentIds(agents), partition,
                                    evaluate(agents, AgentIds(agents), partition))

\* C1: when equally_sized_pieces or discrete_setting returns, the chosen agents of the
\* Allocation are agents of the call and pairwise distinct, each holds exactly one
\* piece, the piece the matching gives it, and no piece is held by two agents.
C1_AllocationIsMatching ==
    (Returned("equally_sized_pieces") \/ Returned("discrete_setting")) =>
        LET chosen == allocation.agents
        IN  /\ \A k \in DOMAIN chosen :
                 /\ chosen[k].kind = "agent"
                 /\ chosen[k].agent \in DOMAIN agents
                 /\ Len(allocation.pieces[k]) = 1
                 /\ << chosen[k], PieceNode(allocation.pieces[k][1]) >> \in ReturnedEdges
            /\ \A j, k \in DOMAIN chosen :
                 j # k => /\ chosen[j] # chosen[k]
                          /\ allocation.pieces[j][1] # allocation.pieces[k][1]
            /\ {chosen[k] : k \in DOMAIN chosen} = {e[1] : e \in ReturnedEdges}

C1_Witness ==
    /\ Returned("equally_sized_pieces") \/ Returned("discrete_setting")
    /\ Len(allocation.agents) >= 2

\* C2: in equally_sized_pieces the graph of P0 has as piece nodes and edge endpoints
\* only pieces of P0, and the graph of P-delta only pieces of P-delta.
C2_GraphsIndependent ==
    (op = "equally_sized_pieces" /\ pc \in {"esp_match_0", "esp_match_delta", "esp_allocate", "done"}
       /\ outcome # "ValueError") =>
        /\ esp.g_0_l.right \subseteq SeqRange(esp.normalize_partitions_0_l)
        /\ \A k \in DOMAIN esp.g_0_l.weight : k[2] \in SeqRange(esp.normalize_partitions_0_l)
        /\ esp.g_delta_l.right \subseteq SeqRange(esp.normalize_partitions_delta_l)
        /\ \A k \in DOMAIN esp.g_delta_l.weight : k[2] \in SeqRange(esp.normalize_partitions_delta_l)

\* C3: equally_sized_pieces returns the heavier of the maximum-weight matchings of the
\* two tilings: the returned weight is the larger of the two tilings' maximum matching
\* weights, and on a tie the matching returned is one of P0.
C3_HeavierTilingReturned ==
    Returned("equally_sized_pieces") =>
        LET w0 == MaxWeight(TilingGraph(esp.normalize_partitions_0_l))
            wd == MaxWeight(TilingGraph(esp.normalize_partitions_delta_l))
        IN  /\ Welfare(allocation) = Max2(w0, wd)
            /\ w0 >= wd =>
                 \A e \in esp.edges_set : e[2].piece \in SeqRange(esp.normalize_partitions_0_l)

\* the maximum matching weight of level t of discrete_setting
LevelWeight(t) == MaxWeight(TilingGraph(change_partition(ds.pieces, t)))
Levels == 0..FloorLog2(Len(ds.pieces))

InvalidInput ==
    \/ op = "equally_sized_pieces"
         /\ (Len(agents) = 0 \/ ~(0 < esp.piece_size /\ esp.piece_size <= One))
    \/ op = "discrete_setting" /\ (Len(agents) = 0 \/ Len(ds.pieces) = 0)
    \/ op = "continuous_setting" /\ Len(agents) = 0

\* C5: every entry point rejects invalid input (no agents; a piece_size outside
\* (0, 1]; no pieces) with the invalid-input error (ValueError) before any valuation
\* query, partition construction or solver call.
C5_InvalidInputRejectedFirst ==
    InvalidInput => pc = "done" /\ outcome = "ValueError" /\ work = {}

AllEvaluationsZero ==
    \/ /\ op = "equally_sized_pieces"
       /\ "eval" \in work
       /\ \A k \in DOMAIN esp.evaluations : esp.evaluations[k] = 0
    \/ /\ op = "discrete_setting"
       /\ Len(agents) > 0 /\ Len(ds.pieces) > 0
       /\ \A t \in Levels : \A a \in DOMAIN agents :
            \A p \in SeqRange(change_partition(ds.pieces, t)) : ValueOf(a, p) = 0

\* C6: when every evaluated value is zero, equally_sized_pieces and discrete_setting
\* end by returning an Allocation, never by raising.
C6_AllZeroReturns ==
    (AllEvaluationsZero /\ pc = "done") => outcome = "returned"

\* C7: change_partition returns floor(m / 2^t) pieces, the k-th from the start of
\* input piece k*2^t to the end of input piece (k+1)*2^t - 1, and so drops exactly the
\* last m mod 2^t input pieces.
C7_ChangePartitionShape ==
    Returned("change_partition") =>
        LET m == Len(chp.partition)
            w == Pow2(chp.t)
        IN  /\ Len(chp.ret) = m \div w
            /\ \A k \in 0..(Len(chp.ret) - 1) :
                 chp.ret[k + 1] = << chp.partition[k * w + 1][1], chp.partition[(k + 1) * w][2] >>
            /\ m - w * Len(chp.ret) = m % w

C7_Witness ==
    /\ Returned("change_partition")
    /\ chp.t >= 1
    /\ Len(chp.ret) >= 2
    /\ Len(chp.partition) % Pow2(chp.t) # 0

\* C8: continuous_setting calls discrete_setting with exactly the agents outside the
\* probe set S and with partition J, returns its result unchanged, and so no probed
\* agent is among the chosen agents.
C8_ProbedAgentsExcluded ==
    (op = "continuous_setting" /\ pc \in {"ds_loop", "cs_return", "done"}) =>
        /\ SeqRange(ds.agents) = (DOMAIN agents) \ SeqRange(cs.s)
        /\ \A j, k \in DOMAIN ds.agents : j # k => ds.agents[j] # ds.agents[k]
        /\ outcome # "ValueError" => ds.pieces = cs.pieces
        /\ outcome = "returned" =>
             /\ allocation = ds.res
             /\ \A k \in DOMAIN allocation.agents :
                  allocation.agents[k].agent \notin SeqRange(cs.s)

C8_Witness ==
    /\ Returned("continuous_setting")
    /\ Len(cs.s) = 2 /\ cs.s[1] = cs.s[2]
    /\ Len(allocation.agents) >= 2

\* C9: create_partition returns the pieces (start + k*size, start + (k+1)*size) for
\* k = 0..K-1 with K = floor((1 - start) / size): each of length exactly size, each
\* beginning where the previous one ends, none ending beyond 1, and the loop ends after
\* K pieces.
C9_CreatePartitionExact ==
    op = "create_partition" =>
        LET K == (One - cp.start0) \div cp.size
        IN  /\ Len(cp.res) <= K
            /\ \A k \in DOMAIN cp.res :
                 cp.res[k] = << cp.start0 + (k - 1) * cp.size, cp.start0 + k * cp.size >>
            /\ pc = "done" => Len(cp.res) = K

\* C10: the partition J continuous_setting hands to discrete_setting starts at 0, has
\* start < end in every piece, each piece starting where the previous one ends, and has
\* at most 2n * floor(n/2) pieces; no agent is asked for more than 2n boundaries.
C10_PartitionJWellFormed ==
    op = "continuous_setting" =>
        LET n == Len(agents)
            J == cs.pieces
        IN  /\ cs.i < 2 * Max2(n, 1)
            /\ Cardinality(cs.partitions) <= 1 + 2 * n * (n \div 2)
            /\ pc # "cs_probe" =>
                 /\ Len(J) <= 2 * n * (n \div 2)
                 /\ Len(J) > 0 => J[1][1] = 0
                 /\ \A k \in DOMAIN J : J[k][1] < J[k][2]
                 /\ \A k \in DOMAIN J : k > 1 => J[k][1] = J[k - 1][2]
                 /\ pc # "done" \/ outcome # "ValueError" => ds.pieces = J

C10_Witness ==
    /\ op = "continuous_setting"
    /\ pc = "ds_loop"
    /\ Len(cs.s) = 2 /\ cs.s[1] # cs.s[2]
    /\ agents[cs.s[1]] # agents[cs.s[2]]
    /\ Len(cs.pieces) >= 2 * Len(agents)

====
